---- MODULE Spec2Model ----
(***************************************************************************)
(* Model of the IPv4 subnet calculator (src/src/calculator.ts).            *)
(*                                                                         *)
(* Strings are sequences of one-character strings, so that split, Number,  *)
(* parseInt, toString, padStart and join are modelled by what they do.     *)
(* Numbers are TLA+ integers; the not-a-number value of Number() is the    *)
(* value NaN below, and the powers of two that exceed the integer range of *)
(* the checker are kept as sequences of decimal digits.                    *)
(***************************************************************************)
EXTENDS Integers, Sequences, FiniteSets, TLC

VARIABLES ipOctets, maskBits, ip, network, netmask, broadcast, wildcard,
          hostMin, hostMax, ipv4Class, maxHosts, maxNetworks, mask,
          last, maskGiven

derived == <<ip, network, netmask, broadcast, wildcard, hostMin, hostMax,
             ipv4Class, maxHosts, maxNetworks, mask>>
vars == <<ipOctets, maskBits, derived, last, maskGiven>>

(***************************************************************************)
(* Error messages (src/src/config, imported at calculator.ts:1-2).         *)
(***************************************************************************)
NoError == "none"
invalidIP == "InvalidAddress"
invalidMask == "InvalidMask"
invalidIPorMask == "InvalidAddressOrMask"

(***************************************************************************)
(* Characters and numbers                                                  *)
(***************************************************************************)
HexDigits == <<"0", "1", "2", "3", "4", "5", "6", "7", "8", "9",
               "a", "b", "c", "d", "e", "f">>
DecChars == {HexDigits[i] : i \in 1..10}
HexChars == {HexDigits[i] : i \in 1..16}

\* The value of a (hexa)decimal digit character.
DigitValues ==
  [c \in HexChars |-> (CHOOSE i \in 1..16 : HexDigits[i] = c) - 1]
DigitVal(c) == DigitValues[c]

\* The result of Number() on text that is not a numeric literal.
NaN == -999999

IsNaN(x) == x = NaN

\* JavaScript comparisons: every comparison with NaN is false.
Lt(a, b) == IF IsNaN(a) \/ IsNaN(b) THEN FALSE ELSE a < b
Gt(a, b) == IF IsNaN(a) \/ IsNaN(b) THEN FALSE ELSE a > b

\* ToInt32 on the numbers of the model: NaN becomes 0.
ToInt32(x) == IF IsNaN(x) THEN 0 ELSE x

RECURSIVE Pow2(_)
Pow2(n) == IF n <= 0 THEN 1 ELSE 2 * Pow2(n - 1)

\* a & b for non-negative integers.
RECURSIVE BitAndNat(_, _)
BitAndNat(a, b) ==
  IF a = 0 \/ b = 0 THEN 0
  ELSE (a % 2) * (b % 2) + 2 * BitAndNat(a \div 2, b \div 2)

\* a | b for non-negative integers.
RECURSIVE BitOrNat(_, _)
BitOrNat(a, b) ==
  IF a = 0 THEN b
  ELSE IF b = 0 THEN a
  ELSE (IF a % 2 = 1 \/ b % 2 = 1 THEN 1 ELSE 0)
         + 2 * BitOrNat(a \div 2, b \div 2)

\* x & m for a 32-bit integer x (two's complement) and a mask m in 0..255.
BitAnd(x, m) == BitAndNat(ToInt32(x) % 256, m)

\* x | y on array elements that are results of bitwise operations.
BitOr(x, y) == BitOrNat(ToInt32(x), ToInt32(y))

\* ~x for a 32-bit integer.
BitNot(x) == -ToInt32(x) - 1

\* One doubling of a 32-bit integer, wrapping as << does.
Double32(x) ==
  IF x >= 1073741824 THEN ((x - 1073741824) - 1073741824) * 2
  ELSE IF x < -1073741824 THEN ((x + 1073741824) + 1073741824) * 2
  ELSE x * 2

\* x << k for a 32-bit integer x: the count is taken modulo 32.
RECURSIVE Shl32Steps(_, _)
Shl32Steps(x, k) == IF k = 0 THEN x ELSE Shl32Steps(Double32(x), k - 1)
Shl32(x, k) == Shl32Steps(x, k % 32)

\* x >> k for a 32-bit integer x (arithmetic shift), 0 <= k <= 31.
Shr32(x, k) == x \div Pow2(k)

(***************************************************************************)
(* Strings                                                                 *)
(***************************************************************************)
\* The place of the first "." of s at or after place i, 0 when there is none.
RECURSIVE IndexOfDot(_, _)
IndexOfDot(s, i) ==
  IF i > Len(s) THEN 0 ELSE IF s[i] = "." THEN i ELSE IndexOfDot(s, i + 1)

\* String.prototype.split("."), calculator.ts:310.
RECURSIVE split(_)
split(s) ==
  LET i == IndexOfDot(s, 1)
  IN IF i = 0 THEN <<s>>
     ELSE <<SubSeq(s, 1, i - 1)>> \o split(SubSeq(s, i + 1, Len(s)))

\* The value of a sequence of digits in the given radix.
RECURSIVE DigitsValue(_, _)
DigitsValue(s, radix) ==
  IF Len(s) = 0 THEN 0
  ELSE radix * DigitsValue(SubSeq(s, 1, Len(s) - 1), radix) + DigitVal(s[Len(s)])

\* /^\d+$/.test(s), calculator.ts:94.
IsDigits(s) == Len(s) > 0 /\ \A i \in 1..Len(s) : s[i] \in DecChars

\* Number(s) as used by map(Number), calculator.ts:310: the empty string is 0,
\* a decimal literal with an optional minus sign is its value, and text that
\* is no numeric literal is NaN.
Number(s) ==
  IF Len(s) = 0 THEN 0
  ELSE IF IsDigits(s) THEN DigitsValue(s, 10)
  ELSE IF s[1] = "-" /\ IsDigits(Tail(s)) THEN -DigitsValue(Tail(s), 10)
  ELSE NaN

\* parseInt(s, 10) on a string of decimal digits, calculator.ts:95.
parseInt10(s) == DigitsValue(s, 10)

\* parseInt(s, 16) on one or two hexadecimal digits, calculator.ts:332.
parseInt16(s) == DigitsValue(s, 16)

\* The digits of a non-negative integer in the given radix, no leading zeros.
RECURSIVE NatToDigits(_, _)
NatToDigits(n, radix) ==
  IF n < radix THEN <<HexDigits[n + 1]>>
  ELSE NatToDigits(n \div radix, radix) \o <<HexDigits[(n % radix) + 1]>>

\* Number.prototype.toString(radix) for the integers of the model and NaN.
toString(n, radix) ==
  IF IsNaN(n) THEN <<"N", "a", "N">>
  ELSE IF n < 0 THEN <<"-">> \o NatToDigits(-n, radix)
  ELSE NatToDigits(n, radix)

\* String.prototype.padStart(width, "0").
RECURSIVE padStart(_, _)
padStart(s, width) == IF Len(s) >= width THEN s ELSE padStart(<<"0">> \o s, width)

\* Array.prototype.join(".") on an array of numbers.
RECURSIVE join(_)
join(arr) ==
  IF Len(arr) = 0 THEN <<>>
  ELSE IF Len(arr) = 1 THEN toString(arr[1], 10)
  ELSE toString(arr[1], 10) \o <<".">> \o join(Tail(arr))

(***************************************************************************)
(* Integers beyond the range of the checker: a sign and the digits of the  *)
(* magnitude, least significant first, without leading zeros.  They carry  *)
(* 2 ** n (calculator.ts:288, 300) and parseInt(hex, 16) (calculator.ts:   *)
(* 320), which reach 2^32.                                                 *)
(***************************************************************************)
RECURSIVE StripZeros(_)
StripZeros(d) ==
  IF Len(d) > 1 /\ d[Len(d)] = 0 THEN StripZeros(SubSeq(d, 1, Len(d) - 1)) ELSE d

Reverse(s) == [i \in 1..Len(s) |-> s[Len(s) + 1 - i]]

\* The number written by a string of digits in the given radix.
BigParse(s, radix) ==
  [neg |-> FALSE, mag |-> StripZeros(Reverse([i \in 1..Len(s) |-> DigitVal(s[i])]))]

RECURSIVE DoubleDigits(_, _, _)
DoubleDigits(d, carry, radix) ==
  IF Len(d) = 0 THEN (IF carry = 0 THEN <<>> ELSE <<carry>>)
  ELSE LET v == 2 * Head(d) + carry
       IN <<v % radix>> \o DoubleDigits(Tail(d), v \div radix, radix)

\* 2 ** n in decimal digits; n is 32 - maskBits or maskBits with maskBits a
\* validated prefix length, so 0 <= n <= 32.
RECURSIVE BigPow2(_)
BigPow2(n) ==
  IF n <= 0 THEN [neg |-> FALSE, mag |-> <<1>>]
  ELSE [neg |-> FALSE, mag |-> DoubleDigits(BigPow2(n - 1).mag, 0, 10)]

RECURSIVE BorrowDigits(_, _, _)
BorrowDigits(d, k, radix) ==
  IF k = 0 \/ Len(d) = 0 THEN d
  ELSE IF Head(d) >= k THEN <<Head(d) - k>> \o Tail(d)
  ELSE <<Head(d) + radix - k>> \o BorrowDigits(Tail(d), 1, radix)

\* b - k for b >= 0 and a digit k.
BigMinus(b, k, radix) ==
  IF Len(b.mag) = 1 /\ b.mag[1] < k
  THEN [neg |-> TRUE, mag |-> <<k - b.mag[1]>>]
  ELSE [neg |-> FALSE, mag |-> StripZeros(BorrowDigits(b.mag, k, radix))]

\* Number.prototype.toString(radix) of such a number.
BigToString(b, radix) ==
  (IF b.neg THEN <<"-">> ELSE <<>>)
    \o [i \in 1..Len(b.mag) |-> HexDigits[b.mag[Len(b.mag) + 1 - i] + 1]]

(***************************************************************************)
(* Calculator: validation                                                  *)
(***************************************************************************)
\* calculator.ts:309-311
RECURSIVE MapNumber(_)
MapNumber(parts) ==
  IF Len(parts) = 0 THEN <<>> ELSE <<Number(Head(parts))>> \o MapNumber(Tail(parts))

ipToOctetArray(s) == MapNumber(split(s))

\* calculator.ts:46-55; err is the message thrown, NoError when it returns.
validateIp(s, message) ==
  LET octets == ipToOctetArray(s)
  IN IF Len(octets) # 4 THEN [err |-> message, octets |-> <<>>]
     ELSE IF \E i \in 1..Len(octets) : Lt(octets[i], 0) \/ Gt(octets[i], 255)
     THEN [err |-> message, octets |-> <<>>]
     ELSE [err |-> NoError, octets |-> octets]

\* validateMask rejecting 32 as well (mask >= 32 for mask > 32).
validateMask_Rejects32(m, message) ==
  IF Lt(m, 0) \/ Gt(m, 31) THEN [err |-> message, mask |-> m]
  ELSE [err |-> NoError, mask |-> m]

\* calculator.ts:64-69
validateMask(m, message) ==
  IF Lt(m, 0) \/ Gt(m, 32) THEN [err |-> message, mask |-> m]
  ELSE [err |-> NoError, mask |-> m]

\* The while loop of calculator.ts:269-273 on one octet.
RECURSIVE bitCount(_)
bitCount(octet) ==
  IF BitAnd(octet, 128) # 0 THEN 1 + bitCount(Shl32(ToInt32(octet), 1)) ELSE 0

RECURSIVE SumBitCounts(_)
SumBitCounts(octets) ==
  IF Len(octets) = 0 THEN 0 ELSE bitCount(Head(octets)) + SumBitCounts(Tail(octets))

\* calculator.ts:265-278.  The method returns this.maskBits, after setting it
\* when it was 0 (or NaN): the result is both the value returned and the
\* value of the field afterwards.
getMaskBitsFromSubnetMask(cur, octets) ==
  IF cur = 0 \/ IsNaN(cur) THEN SumBitCounts(octets) ELSE cur

(***************************************************************************)
(* Calculator: the setters                                                 *)
(***************************************************************************)
\* calculator.ts:77-81: the new ipOctets and the error thrown.
setIp(cur, s) ==
  LET v == validateIp(s, invalidIP)
  IN IF v.err # NoError THEN [ipOctets |-> cur, err |-> v.err]
     ELSE [ipOctets |-> v.octets, err |-> NoError]

\* The argument of setMask is a number or a string.
NumArg(n) == [type |-> "number", num |-> n, str |-> <<>>]
StrArg(s) == [type |-> "string", num |-> 0, str |-> s]

\* setMask assigning this.maskBits before validateMask is called.
setMask_AssignsBeforeValidating(cur, m) ==
  IF m.type = "number" \/ IsDigits(m.str)
  THEN LET maskNum == IF m.type = "number" THEN m.num ELSE parseInt10(m.str)
       IN [maskBits |-> maskNum, err |-> validateMask(maskNum, invalidMask).err]
  ELSE LET o == validateIp(m.str, invalidMask)
       IN IF o.err # NoError THEN [maskBits |-> cur, err |-> o.err]
          ELSE LET held == getMaskBitsFromSubnetMask(cur, o.octets)
               IN [maskBits |-> held, err |-> validateMask(held, invalidMask).err]

\* calculator.ts:89-103: the new maskBits and the error thrown.
setMask(cur, m) ==
  IF m.type = "number" \/ IsDigits(m.str)
  THEN LET maskNum == IF m.type = "number" THEN m.num ELSE parseInt10(m.str)
           v == validateMask(maskNum, invalidMask)
       IN IF v.err # NoError THEN [maskBits |-> cur, err |-> v.err]
          ELSE [maskBits |-> v.mask, err |-> NoError]
  ELSE LET o == validateIp(m.str, invalidMask)
       IN IF o.err # NoError THEN [maskBits |-> cur, err |-> o.err]
          ELSE LET held == getMaskBitsFromSubnetMask(cur, o.octets)
                   v == validateMask(held, invalidMask)
               IN IF v.err # NoError THEN [maskBits |-> held, err |-> v.err]
                  ELSE [maskBits |-> v.mask, err |-> NoError]

(***************************************************************************)
(* Calculator: the derived values                                          *)
(***************************************************************************)
\* getNetworkMask shifting by the prefix length instead of 32 minus it.
getNetworkMask_ShiftsByPrefix(prefixLength) ==
  LET networkMask == Shl32(-1, prefixLength)
  IN << BitAnd(Shr32(networkMask, 24), 255),
        BitAnd(Shr32(networkMask, 16), 255),
        BitAnd(Shr32(networkMask, 8), 255),
        BitAnd(networkMask, 255) >>

\* calculator.ts:161-171.  prefixLength >>> 0 leaves a validated prefix
\* length as it is; 0xffffffff is -1 as a 32-bit integer.
getNetworkMask(prefixLength) ==
  LET prefix == prefixLength
      networkMask == Shl32(-1, 32 - prefix)
  IN << BitAnd(Shr32(networkMask, 24), 255),
        BitAnd(Shr32(networkMask, 16), 255),
        BitAnd(Shr32(networkMask, 8), 255),
        BitAnd(networkMask, 255) >>

\* calculator.ts:180-187
getNetwork(addr, nm) ==
  << BitAndNat(ToInt32(addr[1]), nm[1]),
     BitAndNat(ToInt32(addr[2]), nm[2]),
     BitAndNat(ToInt32(addr[3]), nm[3]),
     BitAndNat(ToInt32(addr[4]), nm[4]) >>

\* calculator.ts:195-202
getInvertedMask(nm) ==
  << BitAnd(BitNot(nm[1]), 255),
     BitAnd(BitNot(nm[2]), 255),
     BitAnd(BitNot(nm[3]), 255),
     BitAnd(BitNot(nm[4]), 255) >>

\* getBroadcast leaving the last octet of the network address as it is.
getBroadcast_OrsThreeOctets(net, invertedMask) ==
  << BitOr(net[1], invertedMask[1]),
     BitOr(net[2], invertedMask[2]),
     BitOr(net[3], invertedMask[3]),
     net[4] >>

\* calculator.ts:211-218
getBroadcast(net, invertedMask) ==
  << BitOr(net[1], invertedMask[1]),
     BitOr(net[2], invertedMask[2]),
     BitOr(net[3], invertedMask[3]),
     BitOr(net[4], invertedMask[4]) >>

\* calculator.ts:226-230
getHostMin(net) == <<net[1], net[2], net[3], net[4] + 1>>

\* calculator.ts:353-356: the text returned and the error thrown.
RECURSIVE HexOfOctets(_)
HexOfOctets(parts) ==
  IF Len(parts) = 0 THEN <<>>
  ELSE padStart(toString(Head(parts), 16), 2) \o HexOfOctets(Tail(parts))

convertToHexa(s) ==
  LET v == validateIp(s, invalidIP)
  IN IF v.err # NoError THEN [err |-> v.err, text |-> <<>>]
     ELSE [err |-> NoError, text |-> HexOfOctets(v.octets)]

\* calculator.ts:319-322
subtractFromHex(hexDigit) ==
  LET numVal == BigMinus(BigParse(hexDigit, 16), 1, 16)
  IN IF numVal.neg THEN <<"f", "f">>
     ELSE padStart(BigToString(numVal, 16), 2)

\* number.match(/.{1,2}/g): pieces of two characters from the left, the last
\* one of one character when the length is odd.
RECURSIVE PairsOf(_)
PairsOf(s) ==
  IF Len(s) = 0 THEN <<>>
  ELSE IF Len(s) <= 2 THEN <<s>>
  ELSE <<SubSeq(s, 1, 2)>> \o PairsOf(SubSeq(s, 3, Len(s)))

\* calculator.ts:330-333
RECURSIVE MapParseInt16(_)
MapParseInt16(parts) ==
  IF Len(parts) = 0 THEN <<>>
  ELSE <<parseInt16(Head(parts))>> \o MapParseInt16(Tail(parts))

hexaToIpArray(number) == MapParseInt16(PairsOf(number))

\* calculator.ts:238-242: the array returned and the error thrown.
getHostMax(bca) ==
  LET bcaConverted == convertToHexa(join(bca))
  IN IF bcaConverted.err # NoError THEN [err |-> bcaConverted.err, octets |-> <<>>]
     ELSE [err |-> NoError,
           octets |-> hexaToIpArray(subtractFromHex(bcaConverted.text))]

\* getIpV4Class testing bit 0x08 where the code tests bit 0x10.
getIpV4Class_TestsBitThree(addr) ==
  LET firstOctet == addr[1]
  IN IF BitAnd(firstOctet, 128) = 0 THEN "A"
     ELSE IF BitAnd(firstOctet, 64) = 0 THEN "B"
     ELSE IF BitAnd(firstOctet, 32) = 0 THEN "C"
     ELSE IF BitAnd(firstOctet, 8) = 0 THEN "D"
     ELSE "E"

\* calculator.ts:250-257
getIpV4Class(addr) ==
  LET firstOctet == addr[1]
  IN IF BitAnd(firstOctet, 128) = 0 THEN "A"
     ELSE IF BitAnd(firstOctet, 64) = 0 THEN "B"
     ELSE IF BitAnd(firstOctet, 32) = 0 THEN "C"
     ELSE IF BitAnd(firstOctet, 16) = 0 THEN "D"
     ELSE "E"

\* getHostNumber taking off one address instead of two.
getHostNumber_MinusOne(cur, nm) ==
  LET bits == getMaskBitsFromSubnetMask(cur, nm)
  IN [maskBits |-> bits, value |-> BigMinus(BigPow2(32 - bits), 1, 10)]

\* calculator.ts:286-290: the number returned and this.maskBits afterwards.
getHostNumber(cur, nm) ==
  LET bits == getMaskBitsFromSubnetMask(cur, nm)
  IN [maskBits |-> bits, value |-> BigMinus(BigPow2(32 - bits), 2, 10)]

\* calculator.ts:298-301: the number returned and this.maskBits afterwards.
getNetworkNumber(cur, nm) ==
  LET bits == getMaskBitsFromSubnetMask(cur, nm)
  IN [maskBits |-> bits, value |-> BigPow2(bits)]

\* The guard of calculate with && for ||.
calculateRejects_NeedsBoth(addr, m) == Len(addr) = 0 /\ m = 0

\* calculator.ts:112-115: the condition under which calculate throws.
calculateRejects(addr, m) == Len(addr) = 0 \/ m = 0

\* calculate with getNetwork writing into the array it is given (ip[i] &=
\* netmask[i]), which is this.ipOctets itself.
calculate_MasksAddressInPlace(addr, m) ==
  IF calculateRejects(addr, m)
  THEN [err |-> invalidIPorMask, ipOctets |-> addr, maskBits |-> m, set |-> FALSE]
  ELSE
    LET nm == getNetworkMask(m)
        wc == getInvertedMask(nm)
        net == getNetwork(addr, nm)
        bca == getBroadcast(net, wc)
        hmin == getHostMin(net)
        hmax == getHostMax(bca)
    IN IF hmax.err # NoError
       THEN [err |-> hmax.err, ipOctets |-> addr, maskBits |-> m, set |-> FALSE]
       ELSE
         LET cls == getIpV4Class(addr)
             numHosts == getHostNumber(m, nm)
             numNetworks == getNetworkNumber(numHosts.maskBits, nm)
         IN [err |-> NoError, ipOctets |-> net,
             maskBits |-> numNetworks.maskBits, set |-> TRUE,
             ip |-> join(addr),
             network |-> join(net),
             ipv4Class |-> cls,
             maxHosts |-> BigToString(numHosts.value, 10),
             maxNetworks |-> BigToString(numNetworks.value, 10),
             wildcard |-> join(wc),
             hostMin |-> join(hmin),
             hostMax |-> join(hmax.octets),
             netmask |-> join(nm),
             broadcast |-> join(bca),
             mask |-> toString(m, 10)]

\* calculate resetting the public fields to '' when its guard throws.
calculate_ClearsFieldsOnFailure(addr, m) ==
  IF calculateRejects(addr, m)
  THEN [err |-> invalidIPorMask, ipOctets |-> addr, maskBits |-> m, set |-> TRUE,
        ip |-> <<>>, network |-> <<>>, ipv4Class |-> <<>>, maxHosts |-> <<>>,
        maxNetworks |-> <<>>, wildcard |-> <<>>, hostMin |-> <<>>,
        hostMax |-> <<>>, netmask |-> <<>>, broadcast |-> <<>>, mask |-> <<>>]
  ELSE
    LET nm == getNetworkMask(m)
        wc == getInvertedMask(nm)
        net == getNetwork(addr, nm)
        bca == getBroadcast(net, wc)
        hmin == getHostMin(net)
        hmax == getHostMax(bca)
    IN IF hmax.err # NoError
       THEN [err |-> hmax.err, ipOctets |-> addr, maskBits |-> m, set |-> FALSE]
       ELSE
         LET cls == getIpV4Class(addr)
             numHosts == getHostNumber(m, nm)
             numNetworks == getNetworkNumber(numHosts.maskBits, nm)
         IN [err |-> NoError, ipOctets |-> addr,
             maskBits |-> numNetworks.maskBits, set |-> TRUE,
             ip |-> join(addr),
             network |-> join(net),
             ipv4Class |-> cls,
             maxHosts |-> BigToString(numHosts.value, 10),
             maxNetworks |-> BigToString(numNetworks.value, 10),
             wildcard |-> join(wc),
             hostMin |-> join(hmin),
             hostMax |-> join(hmax.octets),
             netmask |-> join(nm),
             broadcast |-> join(bca),
             mask |-> toString(m, 10)]

\* calculator.ts:112-153: the error thrown, the stored address and prefix
\* length afterwards, and the values assigned to the public fields.
calculate(addr, m) ==
  IF calculateRejects(addr, m)
  THEN [err |-> invalidIPorMask, ipOctets |-> addr, maskBits |-> m, set |-> FALSE]
  ELSE
    LET nm == getNetworkMask(m)
        wc == getInvertedMask(nm)
        net == getNetwork(addr, nm)
        bca == getBroadcast(net, wc)
        hmin == getHostMin(net)
        hmax == getHostMax(bca)
    IN IF hmax.err # NoError
       THEN [err |-> hmax.err, ipOctets |-> addr, maskBits |-> m, set |-> FALSE]
       ELSE
         LET cls == getIpV4Class(addr)
             numHosts == getHostNumber(m, nm)
             numNetworks == getNetworkNumber(numHosts.maskBits, nm)
         IN [err |-> NoError, ipOctets |-> addr,
             maskBits |-> numNetworks.maskBits, set |-> TRUE,
             ip |-> join(addr),
             network |-> join(net),
             ipv4Class |-> cls,
             maxHosts |-> BigToString(numHosts.value, 10),
             maxNetworks |-> BigToString(numNetworks.value, 10),
             wildcard |-> join(wc),
             hostMin |-> join(hmin),
             hostMax |-> join(hmax.octets),
             netmask |-> join(nm),
             broadcast |-> join(bca),
             mask |-> toString(m, 10)]

(***************************************************************************)
(* The calculator as a state machine                                       *)
(***************************************************************************)
\* An option of the constructor, given or left out (calculator.ts:4-7, 32).
Absent == [given |-> FALSE, value |-> <<>>]
Given(v) == [given |-> TRUE, value |-> v]

\* calculator.ts:11-37: the field initialisers, then setIp and setMask with
\* the options or their defaults.  err is the error the constructor throws.
constructor(ipOption, maskOption) ==
  LET ipText == IF ipOption.given THEN ipOption.value
                ELSE <<"1", "2", "7", ".", "0", ".", "0", ".", "1">>
      maskArg == IF maskOption.given THEN maskOption.value ELSE NumArg(32)
      a == setIp(<<>>, ipText)
      b == setMask(0, maskArg)
  IN IF a.err # NoError THEN [err |-> a.err, ipOctets |-> <<>>, maskBits |-> 0]
     ELSE IF b.err # NoError THEN [err |-> b.err, ipOctets |-> a.ipOctets, maskBits |-> 0]
     ELSE [err |-> NoError, ipOctets |-> a.ipOctets, maskBits |-> b.maskBits]

\* How setMask reads its argument (calculator.ts:91-100).
MaskKind(m) ==
  IF m.type = "number" THEN "number"
  ELSE IF IsDigits(m.str) THEN "digits"
  ELSE "dotted"

(***************************************************************************)
(* Inputs                                                                  *)
(***************************************************************************)
\* The text of an address with the given numbers between its dots.
Dotted(a, b, c, d) == join(<<a, b, c, d>>)

\* Largest number and digit string offered to setMask.
MaxMaskArg == 34

\* Options offered to the constructor.
CtorIpOptions == {Absent, Given(Dotted(192, 168, 1, 1))}
CtorMaskOptions ==
  {Absent, Given(NumArg(0)), Given(StrArg(<<"2", "4">>)),
   Given(StrArg(Dotted(255, 255, 0, 0)))}

\* Texts that are no address.
BadAddresses ==
  { Dotted(192, 168, 1, 300),
    join(<<192, 168, 1, 300, 1>>),
    join(<<1, 2, 3>>),
    Dotted(1, 2, 3, -5),
    <<>> }

\* Texts with a segment that is no decimal literal.
NonNumericAddresses ==
  { <<"1", ".", "2", ".", "3", ".", "x">>,
    <<"a", ".", "b", ".", "c", ".", "d">> }

\* A text with an empty segment.
EmptySegmentAddress == <<"1", ".", ".", "2", ".", "3">>

\* Arguments of setIp and setMask when the calculator is reused freely.
IpInputs ==
  {Dotted(192, 168, 1, 1), Dotted(10, 0, 0, 129)}
    \cup BadAddresses \cup NonNumericAddresses

MaskInputs ==
  {NumArg(n) : n \in {-1, 0, 1, 16, 24, 31, 32, 33}}
    \cup {StrArg(s) : s \in {<<"0">>, <<"2", "4">>, <<"0", "0", "7">>, <<"3", "3">>,
                            <<"-", "1">>, <<>>,
                            Dotted(255, 0, 0, 0), Dotted(255, 255, 0, 0),
                            Dotted(255, 0, 255, 0), Dotted(255, 255, 255, 300)}}

\* Arguments of setIp and setMask within one calculation cycle.
CycleAddresses ==
  { Dotted(0, 0, 0, 0), Dotted(10, 0, 0, 129), Dotted(15, 255, 255, 255),
    Dotted(16, 0, 0, 1), Dotted(127, 0, 0, 1), Dotted(128, 0, 0, 1),
    Dotted(172, 16, 0, 1), Dotted(191, 255, 0, 7), Dotted(192, 168, 1, 1),
    Dotted(223, 1, 2, 3), Dotted(224, 0, 0, 1), Dotted(239, 9, 9, 9),
    Dotted(240, 0, 0, 0), Dotted(255, 255, 255, 255) }

CycleIpInputs ==
  CycleAddresses \cup BadAddresses \cup NonNumericAddresses \cup {EmptySegmentAddress}

DottedMasks ==
  { Dotted(255, 0, 0, 0), Dotted(255, 255, 0, 0), Dotted(255, 255, 255, 0),
    Dotted(255, 255, 255, 255), Dotted(255, 255, 254, 0), Dotted(128, 0, 0, 0),
    Dotted(0, 0, 0, 0), Dotted(255, 0, 255, 0), Dotted(255, 255, 255, 252),
    Dotted(170, 85, 1, 127) }

CycleMaskInputs ==
  {NumArg(n) : n \in (-2)..MaxMaskArg}
    \cup {StrArg(toString(n, 10)) : n \in (-2)..MaxMaskArg}
    \cup {StrArg(<<"0">> \o toString(n, 10)) : n \in {0, 8, 32, 33}}
    \cup {StrArg(s) : s \in DottedMasks}
    \cup {StrArg(s) : s \in {<<>>, Dotted(255, 255, 255, 300), join(<<255, 255, 0>>)}}

(***************************************************************************)
(* Initial states and actions                                              *)
(***************************************************************************)
Init ==
  \E ipOption \in CtorIpOptions, maskOption \in CtorMaskOptions :
    LET c == constructor(ipOption, maskOption)
    IN /\ c.err = NoError
       /\ ipOctets = c.ipOctets
       /\ maskBits = c.maskBits
       /\ ip = <<>> /\ network = <<>> /\ netmask = <<>> /\ broadcast = <<>>
       /\ wildcard = <<>> /\ hostMin = <<>> /\ hostMax = <<>>
       /\ ipv4Class = <<>> /\ maxHosts = <<>> /\ maxNetworks = <<>>
       /\ mask = <<>>
       /\ last = [op |-> "new", kind |-> "", err |-> NoError]
       /\ maskGiven = maskOption.given

\* Each action takes the result of its method once.
SetIp(s) ==
  \E r \in {setIp(ipOctets, s)} :
     /\ ipOctets' = r.ipOctets
     /\ last' = [op |-> "setIp", kind |-> "", err |-> r.err]
     /\ UNCHANGED <<maskBits, derived, maskGiven>>

SetMask(m) ==
  \E r \in {setMask(maskBits, m)} :
     /\ maskBits' = r.maskBits
     /\ last' = [op |-> "setMask", kind |-> MaskKind(m), err |-> r.err]
     /\ maskGiven' = TRUE
     /\ UNCHANGED <<ipOctets, derived>>

Calculate ==
  \E r \in {calculate(ipOctets, maskBits)} :
     /\ ipOctets' = r.ipOctets
     /\ maskBits' = r.maskBits
     /\ last' = [op |-> "calculate", kind |-> "", err |-> r.err]
     /\ IF r.set
        THEN /\ ip' = r.ip
             /\ network' = r.network
             /\ ipv4Class' = r.ipv4Class
             /\ maxHosts' = r.maxHosts
             /\ maxNetworks' = r.maxNetworks
             /\ wildcard' = r.wildcard
             /\ hostMin' = r.hostMin
             /\ hostMax' = r.hostMax
             /\ netmask' = r.netmask
             /\ broadcast' = r.broadcast
             /\ mask' = r.mask
        ELSE UNCHANGED derived
     /\ UNCHANGED maskGiven

\* Free reuse of one calculator.
ReuseSetIp == \E s \in IpInputs : SetIp(s)
ReuseSetMask == \E m \in MaskInputs : SetMask(m)

Next == ReuseSetIp \/ ReuseSetMask \/ Calculate

Spec == Init /\ [][Next]_vars

\* One calculation cycle: the calculator is configured by any sequence of
\* setIp and setMask calls, then calculate is called, any number of times.
Calculated == mask # <<>>
CycleSetIp == ~Calculated /\ \E s \in CycleIpInputs : SetIp(s)
CycleSetMask == ~Calculated /\ \E m \in CycleMaskInputs : SetMask(m)

NextCycle == CycleSetIp \/ CycleSetMask \/ Calculate

SpecCycle == Init /\ [][NextCycle]_vars

(***************************************************************************)
(* Reading the claims: what a text says, told without the calculator       *)
(***************************************************************************)
\* The text is four segments, each a number from 0 to 255.
WellFormedAddress(s) ==
  LET parts == split(s)
  IN /\ Len(parts) = 4
     /\ \A i \in 1..4 : ~IsNaN(Number(parts[i])) /\ Number(parts[i]) \in 0..255

\* The number of leading one-bits of an octet, from bit 7 down.
LeadingOnes(octet) ==
  IF octet >= 255 THEN 8
  ELSE IF octet >= 254 THEN 7
  ELSE IF octet >= 252 THEN 6
  ELSE IF octet >= 248 THEN 5
  ELSE IF octet >= 240 THEN 4
  ELSE IF octet >= 224 THEN 3
  ELSE IF octet >= 192 THEN 2
  ELSE IF octet >= 128 THEN 1
  ELSE 0

LeadingOnesOfMask(s) ==
  LET o == ipToOctetArray(s)
  IN LeadingOnes(o[1]) + LeadingOnes(o[2]) + LeadingOnes(o[3]) + LeadingOnes(o[4])

\* The dotted masks offered to setMask that are well formed.
OfferedDottedMasks ==
  {m \in MaskInputs \cup CycleMaskInputs :
     MaskKind(m) = "dotted" /\ WellFormedAddress(m.str)}

AllDerivedEmpty == \A i \in 1..Len(derived) : derived[i] = <<>>

ValidStoredAddress ==
  Len(ipOctets) = 4 /\ \A i \in 1..4 : ipOctets[i] \in 0..255

(***************************************************************************)
(* C1: in every reachable state, setMask of a well-formed dotted mask      *)
(* stores the sum over its four octets of the leading one-bits of each     *)
(* octet, and the calculate that follows reports that sum as mask.         *)
(***************************************************************************)
C1_DottedMaskStoresLeadingOnes ==
  [][\A m \in OfferedDottedMasks :
       SetMask(m) => /\ last'.err = NoError
                     /\ maskBits' = LeadingOnesOfMask(m.str)]_vars

(***************************************************************************)
(* C2: after a successful calculate on a valid address with a prefix       *)
(* length from 1 to 30, hostMax is the broadcast address with its last     *)
(* octet decremented by one, written as four dotted decimal octets.        *)
(***************************************************************************)
C2_HostMaxIsBroadcastMinusOne ==
  (/\ last.op = "calculate" /\ last.err = NoError
   /\ ValidStoredAddress /\ maskBits \in 1..30)
    => LET b == ipToOctetArray(broadcast)
       IN hostMax = join(<<b[1], b[2], b[3], b[4] - 1>>)

(***************************************************************************)
(* C3: on a calculator constructed without a mask option, on which setMask *)
(* was never called and nothing was calculated, calculate after a          *)
(* successful setIp fails with InvalidAddressOrMask and sets no derived    *)
(* field.                                                                  *)
(***************************************************************************)
C3_NoMaskSetCalculateFails ==
  [][(/\ ~maskGiven /\ AllDerivedEmpty /\ ValidStoredAddress
      /\ last.op = "setIp" /\ last.err = NoError
      /\ last'.op = "calculate")
       => (last'.err = invalidIPorMask /\ UNCHANGED derived)]_vars

(***************************************************************************)
(* C4: setIp fails with InvalidAddress exactly when the text is not four   *)
(* segments that are each a number from 0 to 255 (a segment that is no     *)
(* number is rejected), and when it succeeds the stored address is four    *)
(* octets from 0 to 255.                                                   *)
(***************************************************************************)
C4_SetIpRejectsExactlyMalformed ==
  [][\A s \in IpInputs \cup CycleIpInputs :
       SetIp(s) => /\ (last'.err = invalidIP) <=> ~WellFormedAddress(s)
                   /\ last'.err \in {NoError, invalidIP}
                   /\ last'.err = NoError =>
                        /\ Len(ipOctets') = 4
                        /\ \A i \in 1..4 : ipOctets'[i] \in 0..255]_vars

(***************************************************************************)
(* C5: for every integer n, setMask(n) and setMask of the decimal string   *)
(* of n do the same: for n from 0 to 32 the call succeeds and the stored   *)
(* prefix length becomes n, otherwise it fails with InvalidMask; the       *)
(* calculate that follows a successful call with n >= 1 reports mask = n.  *)
(***************************************************************************)
\* What the claim says of the step that calls setMask for the integer n.
SetMaskOutcomeFor(n) ==
  IF n \in 0..32
  THEN last'.err = NoError /\ maskBits' = n
  ELSE last'.err = invalidMask /\ maskBits' = maskBits

\* The decimal strings of the integers offered.
DecimalStringOf == [n \in (-2)..MaxMaskArg |-> toString(n, 10)]

C5_NumberAndDigitStringAgree ==
  [][/\ (last'.op = "setMask" /\ last'.kind = "number")
          => \A n \in (-2)..MaxMaskArg :
               SetMask(NumArg(n)) => SetMaskOutcomeFor(n)
     /\ (last'.op = "setMask" /\ last'.kind # "number")
          => \A n \in (-2)..MaxMaskArg :
               SetMask(StrArg(DecimalStringOf[n])) => SetMaskOutcomeFor(n)
     /\ (/\ last.op = "setMask" /\ last.err = NoError /\ maskBits >= 1
         /\ last'.op = "calculate")
          => /\ last'.err = NoError
             /\ IsDigits(mask') /\ mask'[1] # "0"
             /\ DigitsValue(mask', 10) = maskBits]_vars

C5_Witness ==
  /\ last.op = "setMask" /\ last.kind = "digits" /\ last.err = NoError
  /\ maskBits = 32 /\ ipOctets = <<10, 0, 0, 129>>

(***************************************************************************)
(* C6: a setIp or setMask call that fails leaves the stored address and    *)
(* the stored prefix length as they were, so that calculate gives what it  *)
(* would have given without the failed call.                               *)
(***************************************************************************)
C6_FailedSetterChangesNothing ==
  [][(last'.op \in {"setIp", "setMask"} /\ last'.err # NoError)
       => /\ ipOctets' = ipOctets
          /\ maskBits' = maskBits
          /\ UNCHANGED derived]_vars

C6_Witness ==
  /\ last.op = "setMask" /\ last.err = invalidMask /\ last.kind = "number"
  /\ maskBits = 16 /\ ipOctets = <<10, 0, 0, 129>>
  /\ mask = <<"2", "4">>

(***************************************************************************)
(* C7: a successful calculate leaves the stored address and prefix length  *)
(* unchanged, and a second calculate right after it leaves all eleven      *)
(* derived fields as the first one set them.                               *)
(***************************************************************************)
C7_CalculateIdempotent ==
  [][/\ (last'.op = "calculate" /\ last'.err = NoError)
          => (ipOctets' = ipOctets /\ maskBits' = maskBits)
     /\ (last.op = "calculate" /\ last.err = NoError /\ last'.op = "calculate")
          => (last'.err = NoError /\ UNCHANGED derived)]_vars

C7_Witness ==
  /\ last.op = "calculate" /\ last.err = NoError
  /\ ipOctets = <<172, 16, 0, 1>> /\ maskBits = 12
  /\ network = <<"1", "7", "2", ".", "1", "6", ".", "0", ".", "0">>

(***************************************************************************)
(* C8: for every stored prefix length P from 1 to 32, the netmask that     *)
(* calculate produces is four octets from 0 to 255 whose 32 bits are P     *)
(* ones followed by 32 - P zeros.                                          *)
(***************************************************************************)
\* Octet i of the mask of P leading ones.
MaskOctetOf(P, i) ==
  LET ones == IF P >= 8 * i THEN 8
              ELSE IF P <= 8 * (i - 1) THEN 0
              ELSE P - 8 * (i - 1)
  IN 256 - Pow2(8 - ones)

C8_NetmaskHasPrefixOnes ==
  (last.op = "calculate" /\ last.err = NoError /\ maskBits \in 1..32)
    => LET o == ipToOctetArray(netmask)
       IN /\ Len(o) = 4
          /\ \A i \in 1..4 : o[i] \in 0..255 /\ o[i] = MaskOctetOf(maskBits, i)

C8_Witness ==
  /\ last.op = "calculate" /\ last.err = NoError /\ maskBits = 32
  /\ netmask = Dotted(255, 255, 255, 255)

(***************************************************************************)
(* C9: after any sequence of setIp and setMask calls, the stored address   *)
(* has four octets, and calculate fails, with InvalidAddressOrMask,        *)
(* exactly when the stored prefix length is 0; it succeeds for every       *)
(* stored prefix length from 1 to 32.                                      *)
(***************************************************************************)
C9_CalculateFailsExactlyOnZeroPrefix ==
  [][/\ Len(ipOctets) = 4 /\ Len(ipOctets') = 4
     /\ maskBits \in 0..32 /\ maskBits' \in 0..32
     /\ last'.op = "calculate"
          => /\ (last'.err # NoError) <=> (maskBits = 0)
             /\ last'.err \in {NoError, invalidIPorMask}]_vars

C9_Witness ==
  /\ last.op = "calculate" /\ last.err = invalidIPorMask
  /\ maskBits = 0 /\ maskGiven /\ ipOctets = <<224, 0, 0, 1>>

(***************************************************************************)
(* C10: for every stored prefix length P from 1 to 31, after calculate the *)
(* mask field is P in decimal, maxNetworks is 2^P in decimal and maxHosts  *)
(* is 2^(32-P) - 2 in decimal.                                             *)
(***************************************************************************)
\* The value of a decimal text as two 16-bit halves, hi * 65536 + lo.
RECURSIVE HalvesOfDecimal(_)
HalvesOfDecimal(s) ==
  IF Len(s) = 0 THEN [hi |-> 0, lo |-> 0]
  ELSE LET front == HalvesOfDecimal(SubSeq(s, 1, Len(s) - 1))
           low == front.lo * 10 + DigitVal(s[Len(s)])
       IN [hi |-> front.hi * 10 + (low \div 65536), lo |-> low % 65536]

\* A decimal text without sign and without leading zeros.
IsDecimalText(s) == IsDigits(s) /\ (Len(s) = 1 \/ s[1] # "0")

\* 2^k and 2^k - 2 as two 16-bit halves.
HalvesOfPow2(k) ==
  IF k >= 16 THEN [hi |-> Pow2(k - 16), lo |-> 0] ELSE [hi |-> 0, lo |-> Pow2(k)]
HalvesOfPow2Minus2(k) ==
  IF k >= 16 THEN [hi |-> Pow2(k - 16) - 1, lo |-> 65534]
  ELSE [hi |-> 0, lo |-> Pow2(k) - 2]

C10_HostAndNetworkCounts ==
  (last.op = "calculate" /\ last.err = NoError /\ maskBits \in 1..31)
    => /\ IsDecimalText(mask) /\ DigitsValue(mask, 10) = maskBits
       /\ IsDecimalText(maxNetworks)
       /\ HalvesOfDecimal(maxNetworks) = HalvesOfPow2(maskBits)
       /\ IsDecimalText(maxHosts)
       /\ HalvesOfDecimal(maxHosts) = HalvesOfPow2Minus2(32 - maskBits)

C10_Witness ==
  /\ last.op = "calculate" /\ last.err = NoError /\ maskBits = 1
  /\ maxNetworks = <<"2">>
  /\ maxHosts = <<"2", "1", "4", "7", "4", "8", "3", "6", "4", "6">>

(***************************************************************************)
(* C11: after a successful calculate on a valid address, ipv4Class is set  *)
(* by the first octet f of the stored address alone: A for f up to 127, B  *)
(* for 128 to 191, C for 192 to 223, D for 224 to 239, E for 240 to 255.   *)
(***************************************************************************)
\* The class the claim gives to a first octet.
ClassOfFirstOctet(f) ==
  IF f <= 127 THEN "A"
  ELSE IF f <= 191 THEN "B"
  ELSE IF f <= 223 THEN "C"
  ELSE IF f <= 239 THEN "D"
  ELSE "E"

C11_ClassFollowsFirstOctet ==
  (/\ last.op = "calculate" /\ last.err = NoError
   /\ ValidStoredAddress /\ maskBits \in 1..32)
    => ipv4Class = ClassOfFirstOctet(ipOctets[1])

C11_Witness ==
  /\ last.op = "calculate" /\ last.err = NoError
  /\ ipOctets = <<239, 9, 9, 9>> /\ maskBits = 5 /\ ipv4Class = "D"

(***************************************************************************)
(* C12: the eleven derived fields are empty at construction and change     *)
(* only in a successful calculate: every setIp and setMask call, failing   *)
(* or not, and every failing calculate leaves all eleven as they were, so  *)
(* after a setter they still show the earlier configuration.               *)
(***************************************************************************)
C12_DerivedChangeOnlyInCalculate ==
  /\ AllDerivedEmpty
  /\ [][(last'.op # "calculate" \/ last'.err # NoError)
          => UNCHANGED derived]_vars

C12_Witness ==
  /\ last.op = "setIp" /\ last.err = NoError
  /\ ipOctets = <<10, 0, 0, 129>> /\ maskBits = 0
  /\ ip = Dotted(192, 168, 1, 1) /\ mask = <<"2", "4">>

(***************************************************************************)
(* C13: after a successful calculate on a valid address with a stored      *)
(* prefix length from 1 to 32, hostMin is a well-formed address: four      *)
(* octets, each from 0 to 255.                                             *)
(***************************************************************************)
C13_HostMinIsWellFormed ==
  (/\ last.op = "calculate" /\ last.err = NoError
   /\ ValidStoredAddress /\ maskBits \in 1..32)
    => WellFormedAddress(hostMin)

(***************************************************************************)
(* C14: after a successful calculate on a valid address with stored prefix *)
(* length P from 1 to 32, with network, ip and broadcast read as 32-bit    *)
(* values: network <= ip <= broadcast; the low 32 - P bits of network are  *)
(* zero and network AND netmask = network; the low 32 - P bits of          *)
(* broadcast are one and broadcast OR wildcard = broadcast; network and    *)
(* broadcast have the top P bits of ip; broadcast - network = 2^(32-P) - 1.*)
(***************************************************************************)
\* The 32-bit value of a dotted text as two 16-bit halves, hi * 65536 + lo.
HalvesOfAddress(s) ==
  LET o == ipToOctetArray(s)
  IN [hi |-> o[1] * 256 + o[2], lo |-> o[3] * 256 + o[4]]

\* a <= b on values given as halves.
HalvesLeq(a, b) == a.hi < b.hi \/ (a.hi = b.hi /\ a.lo <= b.lo)

\* The low n bits and the bits above them of a value given as halves.
LowBitsOf(v, n) ==
  IF n >= 16 THEN [hi |-> v.hi % Pow2(n - 16), lo |-> v.lo]
  ELSE [hi |-> 0, lo |-> v.lo % Pow2(n)]
TopBitsOf(v, n) ==
  IF n >= 16 THEN [hi |-> v.hi \div Pow2(n - 16), lo |-> 0]
  ELSE [hi |-> v.hi, lo |-> v.lo \div Pow2(n)]

\* 2^n - 1 as halves, for n from 0 to 32.
HalvesOfOnes(n) ==
  IF n >= 16 THEN [hi |-> Pow2(n - 16) - 1, lo |-> 65535]
  ELSE [hi |-> 0, lo |-> Pow2(n) - 1]

\* Octet by octet a AND b = a, and a OR b = a, on dotted texts.
AndGivesFirst(a, b) ==
  LET x == ipToOctetArray(a)
      y == ipToOctetArray(b)
  IN \A i \in 1..4 : BitAndNat(x[i], y[i]) = x[i]
OrGivesFirst(a, b) ==
  LET x == ipToOctetArray(a)
      y == ipToOctetArray(b)
  IN \A i \in 1..4 : BitOrNat(x[i], y[i]) = x[i]

C14_NetworkAndBroadcastBracketAddress ==
  (/\ last.op = "calculate" /\ last.err = NoError
   /\ ValidStoredAddress /\ maskBits \in 1..32)
    => LET n == HalvesOfAddress(network)
           a == HalvesOfAddress(ip)
           b == HalvesOfAddress(broadcast)
           low == 32 - maskBits
       IN /\ WellFormedAddress(network) /\ WellFormedAddress(broadcast)
          /\ a = [hi |-> ipOctets[1] * 256 + ipOctets[2],
                  lo |-> ipOctets[3] * 256 + ipOctets[4]]
          /\ HalvesLeq(n, a) /\ HalvesLeq(a, b)
          /\ LowBitsOf(n, low) = [hi |-> 0, lo |-> 0]
          /\ AndGivesFirst(network, netmask)
          /\ LowBitsOf(b, low) = HalvesOfOnes(low)
          /\ OrGivesFirst(broadcast, wildcard)
          /\ TopBitsOf(n, low) = TopBitsOf(a, low)
          /\ TopBitsOf(b, low) = TopBitsOf(a, low)
          /\ [hi |-> b.hi - n.hi, lo |-> b.lo - n.lo] = HalvesOfOnes(low)

C14_Witness ==
  /\ last.op = "calculate" /\ last.err = NoError
  /\ ipOctets = <<191, 255, 0, 7>> /\ maskBits = 13
  /\ network = Dotted(191, 248, 0, 0)
  /\ broadcast = Dotted(191, 255, 255, 255)

====
